---- MODULE Spec2Model ----
(***************************************************************************)
(* A model of src/src/index.js (ansi-js-logger): the ANSI text-formatting  *)
(* engine (getColor, halving, parseRGB, hexToRgb, getColorFromText,        *)
(* colorizeByText, parseString, prepareObject, prepareCustomLog) and the   *)
(* duplicate-log suppression of the LOG object.                            *)
(*                                                                         *)
(* A JavaScript string is a sequence of one-character strings; the escape  *)
(* character \x1b is the single element "ESC".  A JavaScript exception is  *)
(* the field threw of a result.  A value computed once and used several    *)
(* times in the source is passed on as the parameter of the operator that  *)
(* models the rest of the function.                                        *)
(***************************************************************************)
EXTENDS Integers, Sequences, FiniteSets, TLC

(***************************************************************************)
(* String primitives of the JavaScript runtime used by the source.         *)
(***************************************************************************)

DigitSeq == <<"0", "1", "2", "3", "4", "5", "6", "7", "8", "9">>

Digits == {DigitSeq[i] : i \in 1..10}

HexSeq == <<"0", "1", "2", "3", "4", "5", "6", "7", "8", "9", "a", "b", "c", "d", "e", "f">>

UpperSeq == <<"A", "B", "C", "D", "E", "F", "G", "H", "I", "J", "K", "L", "M",
              "N", "O", "P", "Q", "R", "S", "T", "U", "V", "W", "X", "Y", "Z">>

LowerSeq == <<"a", "b", "c", "d", "e", "f", "g", "h", "i", "j", "k", "l", "m",
              "n", "o", "p", "q", "r", "s", "t", "u", "v", "w", "x", "y", "z">>

\* the least element of a set of positive indexes, 0 for the empty set: the
\* result of indexOf, find and findIndex over the indexes that pass a test
First(hits) == IF hits = {} THEN 0 ELSE CHOOSE k \in hits : \A j \in hits : k <= j

\* String.prototype.toLowerCase on one character
LowerChar(c) == (<<c>> \o LowerSeq)[1 + First({i \in 1..26 : UpperSeq[i] = c})]

\* String.prototype.toLowerCase
toLowerCase(s) == [i \in 1..Len(s) |-> LowerChar(s[i])]

HexDigits == {HexSeq[i] : i \in 1..16} \cup {UpperSeq[i] : i \in 1..6}

\* the value of a hexadecimal (or decimal) digit character, either case
HexVal(c) == First({i \in 1..16 : HexSeq[i] = LowerChar(c)}) - 1

WhiteSpace == {" ", "\t", "\n", "\r"}

\* s.slice(from - 1): the characters of s from position from (1-based) on
Drop(s, from) == SubSeq(s, from, Len(s))

\* s.slice(0, n): the first n characters of s
Take(s, n) == SubSeq(s, 1, IF n > Len(s) THEN Len(s) ELSE n)

\* whether pat occurs in s at position i (1-based)
MatchAt(s, pat, i) ==
  /\ i >= 1
  /\ i + Len(pat) - 1 <= Len(s)
  /\ \A k \in 1..Len(pat) : s[i + k - 1] = pat[k]

\* String.prototype.indexOf from position from, 1-based; 0 when absent
IndexOf(s, pat, from) == First({i \in from..(Len(s) - Len(pat) + 1) : MatchAt(s, pat, i)})

\* String.prototype.includes
includes(s, pat) == \E i \in 1..(Len(s) - Len(pat) + 1) : MatchAt(s, pat, i)

\* String.prototype.startsWith
startsWith(s, pat) == MatchAt(s, pat, 1)

\* String.prototype.endsWith
endsWith(s, pat) == MatchAt(s, pat, Len(s) - Len(pat) + 1)

RECURSIVE splitAt(_, _, _)
\* String.prototype.split, i being the position of the first separator (0: none)
splitAt(s, sep, i) ==
  IF i = 0 THEN <<s>>
  ELSE <<Take(s, i - 1)>>
       \o splitAt(Drop(s, i + Len(sep)), sep, IndexOf(Drop(s, i + Len(sep)), sep, 1))

\* String.prototype.split with a non-empty string separator
split(s, sep) == splitAt(s, sep, IndexOf(s, sep, 1))

RECURSIVE Flatten(_)
\* Array.prototype.join("") of an array of strings
Flatten(parts) ==
  IF parts = <<>> THEN <<>> ELSE Head(parts) \o Flatten(Tail(parts))

RECURSIVE join(_, _)
\* Array.prototype.join(sep) of an array of strings
join(parts, sep) ==
  IF Len(parts) <= 1 THEN Flatten(parts)
  ELSE Head(parts) \o sep \o join(Tail(parts), sep)

RECURSIVE StripAll(_, _)
\* s.replace(/(p1|p2|...)/g, ""): every occurrence of a pattern of pats removed,
\* scanning left to right, the alternatives tried in order at each position
StripAll(s, pats) ==
  IF s = <<>> THEN <<>>
  ELSE IF \A k \in 1..Len(pats) : ~MatchAt(s, pats[k], 1)
       THEN <<Head(s)>> \o StripAll(Tail(s), pats)
       ELSE StripAll(Drop(s, 1 + Len(pats[First({k \in 1..Len(pats) : MatchAt(s, pats[k], 1)})])),
                     pats)

\* s.replace(pat, ""): the first occurrence of the string pat removed, i being
\* its position (0: none)
removeAt(s, pat, i) == IF i = 0 THEN s ELSE Take(s, i - 1) \o Drop(s, i + Len(pat))

\* s.replace(pat, "") with a string pat
removeFirst(s, pat) == removeAt(s, pat, IndexOf(s, pat, 1))

\* s.replace(/m$/, "")
removeFinalM(s) == IF endsWith(s, <<"m">>) THEN SubSeq(s, 1, Len(s) - 1) ELSE s

RECURSIVE NatToStr(_)
\* String(n) of a natural number
NatToStr(n) ==
  IF n < 10 THEN <<DigitSeq[n + 1]>>
  ELSE NatToStr(n \div 10) \o <<DigitSeq[(n % 10) + 1]>>

\* String(n) of an integer
NumToStr(n) == IF n < 0 THEN <<"-">> \o NatToStr(-n) ELSE NatToStr(n)

\* a number that may be NaN
Num(n) == [nan |-> FALSE, n |-> n]

NaN == [nan |-> TRUE, n |-> 0]

RECURSIVE DigitsValue(_, _, _)
\* the value of a run of digits of the given radix, acc being the value so far
DigitsValue(s, radix, acc) ==
  IF s = <<>> THEN acc
  ELSE DigitsValue(Tail(s), radix, acc * radix + HexVal(Head(s)))

RECURSIVE SkipWhile(_, _)
\* s without its longest prefix of characters of set
SkipWhile(s, set) ==
  IF s # <<>> /\ Head(s) \in set THEN SkipWhile(Tail(s), set) ELSE s

RECURSIVE TakeWhile(_, _)
\* the longest prefix of s made of characters of set
TakeWhile(s, set) ==
  IF s # <<>> /\ Head(s) \in set THEN <<Head(s)>> \o TakeWhile(Tail(s), set) ELSE <<>>

\* whether s starts with a sign
Signed(s) == s # <<>> /\ Head(s) \in {"-", "+"}

\* whether s starts with the minus sign
Negative(s) == s # <<>> /\ Head(s) = "-"

\* s without its sign
Unsigned(s) == IF Signed(s) THEN Tail(s) ELSE s

\* whether s starts with 0 and one of two letters, as 0x or 0X
HasBasePrefix(s, letters) == Len(s) >= 2 /\ s[1] = "0" /\ s[2] \in letters

\* the end of parseInt: run is the longest prefix of digits
parseIntRun(neg, run, radix) ==
  IF run = <<>> THEN NaN
  ELSE Num((IF neg THEN -1 ELSE 1) * DigitsValue(run, radix, 0))

\* parseInt after the sign: 0x is skipped when the radix is 16
parseIntUnsigned(neg, u, radix) ==
  parseIntRun(neg,
              TakeWhile(IF radix = 16 /\ HasBasePrefix(u, {"x", "X"}) THEN Drop(u, 3) ELSE u,
                        IF radix = 16 THEN HexDigits ELSE Digits),
              radix)

\* parseInt after the leading white space
parseIntTrimmed(t, radix) == parseIntUnsigned(Negative(t), Unsigned(t), radix)

\* parseInt(s, radix) for radix 10 and 16: leading white space skipped, an
\* optional sign, an optional 0x when the radix is 16, then the longest prefix of
\* digits; NaN when there is none
parseInt(s, radix) == parseIntTrimmed(SkipWhile(s, WhiteSpace), radix)

\* the remainder operator % of JavaScript on integers: the sign follows the dividend
JsRem(a, b) == IF a >= 0 THEN a % b ELSE -((-a) % b)

\* whether every character of s is in set, s being non-empty
AllIn(s, set) == s # <<>> /\ \A i \in 1..Len(s) : s[i] \in set

RECURSIVE TrimEnd(_)
\* s without trailing white space
TrimEnd(s) ==
  IF s # <<>> /\ s[Len(s)] \in WhiteSpace THEN TrimEnd(SubSeq(s, 1, Len(s) - 1)) ELSE s

\* String.prototype.trim
trim(s) == TrimEnd(SkipWhile(s, WhiteSpace))

\* whether s is the ExponentPart of a numeric literal, or empty
IsExponentOrEmpty(s) ==
  \/ s = <<>>
  \/ Head(s) \in {"e", "E"} /\ AllIn(Unsigned(Tail(s)), Digits)

\* the sign of a decimal literal of mantissa digits mant followed by rest
SignOfMantissa(neg, mant, rest) ==
  IF mant = <<>> \/ ~IsExponentOrEmpty(rest) THEN "nan"
  ELSE IF AllIn(mant, {"0"}) THEN "zero"
  ELSE IF neg THEN "neg" ELSE "pos"

\* the sign of a decimal literal of integer digits int followed by r1, which
\* may start with a fraction
SignOfFraction(neg, int, r1) ==
  IF r1 # <<>> /\ Head(r1) = "."
  THEN SignOfMantissa(neg, int \o TakeWhile(Tail(r1), Digits), SkipWhile(Tail(r1), Digits))
  ELSE SignOfMantissa(neg, int, r1)

\* the sign of an unsigned decimal literal u
SignOfDecimal(neg, u) ==
  IF u = <<"I", "n", "f", "i", "n", "i", "t", "y">> THEN (IF neg THEN "neg" ELSE "pos")
  ELSE SignOfFraction(neg, TakeWhile(u, Digits), SkipWhile(u, Digits))

\* the sign of the digits of a 0x, 0o or 0b literal
SignOfBased(digits, set) ==
  IF ~AllIn(digits, set) THEN "nan" ELSE IF AllIn(digits, {"0"}) THEN "zero" ELSE "pos"

\* the sign of Number(t) for a trimmed string t
SignOfTrimmed(t) ==
  IF t = <<>> THEN "zero"
  ELSE IF HasBasePrefix(t, {"x", "X"}) THEN SignOfBased(Drop(t, 3), HexDigits)
  ELSE IF HasBasePrefix(t, {"o", "O"})
       THEN SignOfBased(Drop(t, 3), {"0", "1", "2", "3", "4", "5", "6", "7"})
  ELSE IF HasBasePrefix(t, {"b", "B"}) THEN SignOfBased(Drop(t, 3), {"0", "1"})
  ELSE SignOfDecimal(Negative(t), Unsigned(t))

\* Number(s), the conversion of the unary + of the source, by its sign: "nan",
\* "neg", "zero" or "pos" (StringToNumber of ECMAScript: white space trimmed, the
\* empty string is 0, a signed decimal literal with optional fraction and
\* exponent, Infinity, or an unsigned 0x, 0o or 0b integer literal)
NumberSign(s) == SignOfTrimmed(trim(s))

\* isNaN(+s)
isNaNNumber(s) == NumberSign(s) = "nan"

(***************************************************************************)
(* The constants and tables of the source.                                 *)
(***************************************************************************)

\* const prefix = "\x1b["
prefix == <<"ESC", "[">>

\* const postfix = "m"
postfix == <<"m">>

\* const reset = `${prefix}0${postfix}`
reset == prefix \o <<"0">> \o postfix

\* `${prefix}${codes.join(";")}${postfix}`: the escape sequence of a list of codes
Sequence(codes) == prefix \o join(codes, <<";">>) \o postfix

\* Object.keys(STYLES), in declaration order
StyleNames == << <<"b","o","l","d">>, <<"d","i","m">>, <<"i","t","a","l","i","c">>,
                 <<"c","u","r","s","i","v","e">>, <<"u","n","d","e","r","l","i","n","e">>,
                 <<"b","l","i","n","k">>, <<"i","n","v","e","r","s","e">>,
                 <<"h","i","d","d","e","n">>,
                 <<"s","t","r","i","k","e","t","h","r","o","u","g","h">> >>

\* STYLES[name].on, in declaration order
StyleOn == <<1, 2, 3, 3, 4, 5, 7, 8, 9>>

\* STYLES[name].off, in declaration order
StyleOff == <<22, 22, 23, 23, 24, 25, 27, 28, 29>>

\* the place of name in STYLES, 0 when STYLES[name] is undefined
StyleIndex(name) == First({k \in 1..Len(StyleNames) : StyleNames[k] = name})

\* whether STYLES[name] is defined
HasStyle(name) == StyleIndex(name) # 0

\* Object.keys(COLORS), in declaration order
ColorNames == << <<"b","l","a","c","k">>, <<"r","e","d">>, <<"g","r","e","e","n">>,
                 <<"y","e","l","l","o","w">>, <<"b","l","u","e">>,
                 <<"m","a","g","e","n","t","a">>, <<"c","y","a","n">>,
                 <<"w","h","i","t","e">>, <<"r","e","s","e","t">> >>

\* COLORS[Object.keys(COLORS)[k]]
ColorCodes == <<30, 31, 32, 33, 34, 35, 36, 37, 0>>

\* const INDEX = { down: 73, up: 74, off: 75 }
INDEX == [down |-> 73, up |-> 74, off |-> 75]

\* the names halving takes for a lower index
DownNames == { <<"d","o","w","n">>, <<"s","u","p","e","r","s","c","r","i","p","t">>,
               <<"s","u","p","e","r">>, <<"s","u","p">>, <<"u","n","d","e","r">>,
               <<"b","o","t","t","o","m">>, <<"l","o","w","e","r">> }

\* the names halving takes for an upper index
UpNames == { <<"u","p">>, <<"s","u","b","s","c","r","i","p","t">>, <<"s","u","b">>,
             <<"o","v","e","r">>, <<"t","o","p">>, <<"u","p","p","e","r">> }

(***************************************************************************)
(* Values of the source that may be absent.                                *)
(***************************************************************************)

\* null or undefined, for a value that is a sequence when present
Null == [isNull |-> TRUE, v |-> <<>>]

\* a present value
Some(v) == [isNull |-> FALSE, v |-> v]

\* whether a string value is truthy: present and not empty
Truthy(o) == ~o.isNull /\ o.v # <<>>

\* an array element that is a string (num FALSE) or a number (num TRUE), s being
\* its characters or its decimal form
StrElem(s) == [num |-> FALSE, s |-> s]

NumElem(n) == [num |-> TRUE, s |-> NumToStr(n)]

\* the strings of an array of elements, as Array.prototype.join converts them
ElemStrings(arr) == [i \in 1..Len(arr) |-> arr[i].s]

\* the result of a call that may throw
Ok(out) == [threw |-> FALSE, out |-> out]

Threw == [threw |-> TRUE, out |-> <<>>]

(***************************************************************************)
(* parseRGB, hexToRgb, getColorFromText, getColor, halving, colorizeByText *)
(***************************************************************************)

RECURSIVE DigitRuns(_)
\* inputStr.match(/\d*/gi).filter((i) => i.length): the maximal runs of digits
DigitRuns(s) ==
  IF s = <<>> THEN <<>>
  ELSE IF Head(s) \in Digits
       THEN <<TakeWhile(s, Digits)>> \o DigitRuns(SkipWhile(s, Digits))
       ELSE DigitRuns(Tail(s))

\* a variant of Component that leaves the value as parsed
ComponentUnreduced(n) == IF n.nan THEN 0 ELSE n.n

\* .map((i) => parseInt(i, 10)).map((i) => (isNaN(i) ? 0 : i % 256)) on one value
Component(n) == IF n.nan THEN 0 ELSE JsRem(n.n, 256)

\* the map of parseRGB over the runs kept
parseRuns(runs) == [i \in 1..Len(runs) |-> Num(Component(parseInt(runs[i], 10)))]

\* parseRGB of a string: null for the empty string, else the first three digit
\* runs, each parsed and reduced by % 256
parseRGB(input) ==
  IF input = <<>> THEN Null ELSE Some(parseRuns(Take(DigitRuns(input), 3)))

\* parseRGB of an array of numbers: the first three, NaN becoming 0, each % 256
parseRGBArray(input) == [i \in 1..Len(Take(input, 3)) |-> Component(input[i])]

\* the three pairs of hexadecimal digits hexToRgb parses, null for a length
\* other than 3, 6 and 8
hexPairs(hex) ==
  IF Len(hex) = 3
  THEN Some(<< <<hex[1], hex[1]>>, <<hex[2], hex[2]>>, <<hex[3], hex[3]>> >>)
  ELSE IF Len(hex) \in {6, 8}
  THEN Some(<<SubSeq(hex, 1, 2), SubSeq(hex, 3, 4), SubSeq(hex, 5, 6)>>)
  ELSE Null

\* [r, g, b] of hexToRgb, or null
parsePairs(pairs) ==
  IF pairs.isNull THEN Null ELSE Some([i \in 1..3 |-> parseInt(pairs.v[i], 16)])

\* hexToRgb: null unless 3, 6 or 8 characters follow the stripped leading #
hexToRgb(hex) == parsePairs(hexPairs(IF startsWith(hex, <<"#">>) THEN Tail(hex) ELSE hex))

\* the characters whose presence makes getColorFromText take a code for RGB
RgbMarks == {<<"r", "g", "b">>, <<".">>, <<",">>, <<"-">>, <<"/">>, <<"\\">>}

\* whether the lower-cased code contains a mark of RgbMarks
HasRgbMark(lower) == \E mark \in RgbMarks : includes(lower, mark)

\* a variant of IsRgbCode without the conversion to a number
IsRgbCodeByMark(code) == HasRgbMark(toLowerCase(code))

\* the rgb test of getColorFromText
IsRgbCode(code) == HasRgbMark(toLowerCase(code)) \/ ~isNaNNumber(code)

\* the end of getColorFromText: it throws a TypeError at rgbArray.length when
\* hexToRgb or parseRGB returned null
colorFromArray(textCode, rgbArray) ==
  IF rgbArray.isNull THEN [threw |-> TRUE, textCode |-> <<>>, rgb |-> Null]
  ELSE [threw |-> FALSE, textCode |-> textCode,
        rgb |-> IF Len(rgbArray.v) # 0 THEN rgbArray ELSE Null]

\* getColorFromText once hex and rgb are known
colorFromKind(code, hex, rgb) ==
  colorFromArray(IF hex \/ rgb THEN <<>> ELSE code,
                 IF hex THEN hexToRgb(code) ELSE IF rgb THEN parseRGB(code) ELSE Some(<<>>))

\* getColorFromText(code): {textCode, options: {rgb}}
getColorFromText(code) == colorFromKind(code, startsWith(code, <<"#">>), IsRgbCode(code))

\* the options argument of getColor: null, or {bg, contrast, rgb}
NoOptions == [isNull |-> TRUE, bg |-> FALSE, contrast |-> FALSE, rgb |-> Null]

Options(bg, contrast, rgb) == [isNull |-> FALSE, bg |-> bg, contrast |-> contrast, rgb |-> rgb]

\* the arguments of the sequence of an RGB colour, by the number of components
rgbArgs(first, nums) ==
  IF Len(nums) = 1 THEN <<first, <<"5">>, nums[1]>>
  ELSE IF Len(nums) = 2 THEN <<first, <<"2">>>> \o nums \o << <<"0">> >>
  ELSE <<first, <<"2">>>> \o nums

\* the rgb branch of getColor
rgbColor(colors, keyShifting) ==
  Sequence(rgbArgs(NumToStr(38 + keyShifting), [i \in 1..Len(colors) |-> NumToStr(colors[i])]))

\* the key of COLORS getColor finds for a lower-cased text: the name equal to
\* it, else the first name it includes, 0 when there is none
colorKeyOr(lower, exact) ==
  IF exact # 0 THEN exact
  ELSE First({k \in 1..Len(ColorNames) : includes(lower, ColorNames[k])})

colorKey(lower) == colorKeyOr(lower, First({k \in 1..Len(ColorNames) : ColorNames[k] = lower}))

\* the named branch of getColor
namedColor(key, keyShifting) ==
  IF key = 0 THEN <<>> ELSE Sequence(<<NumToStr(ColorCodes[key] + keyShifting)>>)

\* getColor once bg, contrast and rgb are read from the options
colorOf(text, bg, contrast, rgb) ==
  IF rgb.isNull /\ Len(text) < 3 THEN <<>>
  ELSE IF ~rgb.isNull THEN rgbColor(parseRGBArray(rgb.v), IF bg THEN 10 ELSE 0)
  ELSE namedColor(colorKey(toLowerCase(text)),
                  (IF bg THEN 10 ELSE 0) + (IF contrast THEN 60 ELSE 0))

\* getColor(text, options): the escape sequence of a colour, "" when there is none
getColor(text, options) ==
  IF options.isNull THEN colorOf(text, FALSE, FALSE, Null)
  ELSE colorOf(text, options.bg, options.contrast, options.rgb)

\* colorCode.replace(prefix, "").replace(/m$/, ""): the parameters of a sequence
cleanCode(colorCode) == removeFinalM(removeFirst(colorCode, prefix))

\* .filter((style) => style && style !== ""): a non-empty string or a number
\* other than 0
IsStyleCode(e) == IF e.num THEN e.s # <<"0">> ELSE e.s # <<>>

\* .map(parseInt for a string).filter((style) => !isNaN(style)), as strings
styleCodeOf(e) == IF e.num THEN Num(0) ELSE parseInt(e.s, 10)

IsNumber(e) == ~styleCodeOf(e).nan

codeString(e) == IF e.num THEN e.s ELSE NumToStr(styleCodeOf(e).n)

\* styleCodes of halving
styleCodes(kept) == [i \in 1..Len(kept) |-> codeString(kept[i])]

\* the end of halving, key being "down", "up" or "" (null)
halvingKey(text, key, codes) ==
  IF key = "" THEN text
  ELSE Sequence(<<NumToStr(IF key = "down" THEN INDEX.down ELSE INDEX.up)>> \o codes)
       \o text \o Sequence(<<NumToStr(INDEX.off)>> \o codes)

\* down ? "down" : up ? "up" : null, for the lower-cased reg and the sign of +reg
directionKey(lower, sign) ==
  IF lower \in DownNames \/ sign = "neg" THEN "down"
  ELSE IF lower \in UpNames \/ sign = "pos" THEN "up"
  ELSE ""

\* halving(text, reg, styles): reg is a string or undefined (a number n behaves as
\* the string of its digits), styles an array of strings and numbers
halving(text, reg, styles) ==
  IF ~Truthy(reg) THEN text
  ELSE halvingKey(text, directionKey(toLowerCase(reg.v), NumberSign(reg.v)),
                  styleCodes(SelectSeq(SelectSeq(styles, IsStyleCode), IsNumber)))

\* the end of colorizeByText, c being the result of getColorFromText
colorizeWith(text, c) ==
  IF c.threw THEN Threw
  ELSE Ok(getColor(c.textCode, IF ~c.rgb.isNull THEN Options(FALSE, FALSE, c.rgb) ELSE NoOptions)
          \o text \o reset)

\* colorizeByText(text, code): code is a string or undefined
colorizeByText(text, code) ==
  IF ~Truthy(code) THEN Ok(text) ELSE colorizeWith(text, getColorFromText(code.v))

(***************************************************************************)
(* parseString: the inline DSL                                             *)
(***************************************************************************)

\* the separators argument of parseString: null, or {command, param}, each a
\* string, null or undefined
Separators(command, param) == [isNull |-> FALSE, command |-> command, param |-> param]

NoSeparators == [isNull |-> TRUE, command |-> Null, param |-> Null]

\* the command separator parseString uses: "|" unless separators.command is truthy
commandSeparator(separators) ==
  IF ~separators.isNull /\ Truthy(separators.command) THEN separators.command.v ELSE <<"|">>

\* the parameter separator parseString uses: "." unless separators.param is truthy
paramSeparator(separators) ==
  IF ~separators.isNull /\ Truthy(separators.param) THEN separators.param.v ELSE <<".">>

\* the state of the forEach of parseString: the buffer str, lastColor (null or
\* a string) and whether a segment threw
ParseState(str, lastColor, threw) == [str |-> str, lastColor |-> lastColor, threw |-> threw]

\* [lastColor].filter((i) => i !== null)
colorList(lastColor) == IF lastColor.isNull THEN <<>> ELSE <<lastColor.v>>

\* halving's styles argument in the i command
colorElems(lastColor) == IF lastColor.isNull THEN <<>> ELSE <<StrElem(lastColor.v)>>

\* the if (key === "i") block: halving of the payload with lastColor
indexCommand(st, params, currentText) ==
  ParseState(st.str \o halving(currentText,
                               IF Len(params) >= 2 THEN Some(params[2]) ELSE Null,
                               colorElems(st.lastColor)),
             st.lastColor, FALSE)

\* ${prefix}${[code, lastColor].filter((i) => i !== null).join(";")}${postfix}
styleSequence(code, lastColor) == Sequence(<<NumToStr(code)>> \o colorList(lastColor))

\* the if (key === "s") block for the style at place k of STYLES, 0 when
\* STYLES[params[1]] is undefined: on and off are then ""
styleWrap(st, currentText, k) ==
  IF k = 0 THEN ParseState(st.str \o currentText, st.lastColor, FALSE)
  ELSE ParseState(st.str \o styleSequence(StyleOn[k], st.lastColor) \o currentText
                  \o styleSequence(StyleOff[k], st.lastColor),
                  st.lastColor, FALSE)

\* the if (key === "s") block
styleCommand(st, params, currentText) ==
  styleWrap(st, currentText, IF Len(params) >= 2 THEN StyleIndex(params[2]) ELSE 0)

\* the end of the c block: the colour is written and remembered
colorAppend(st, currentText, color) ==
  ParseState(st.str \o color \o currentText, Some(cleanCode(color)), FALSE)

\* the c block after getColorFromText(cleanedCode), which may have thrown
colorResolved(st, currentText, isBackground, isNeedContrast, c) ==
  IF c.threw THEN ParseState(st.str, st.lastColor, TRUE)
  ELSE colorAppend(st, currentText,
                   getColor(c.textCode, Options(isBackground, isNeedContrast, c.rgb)))

\* the c block for the lower-cased argument
colorLower(st, currentText, lower) ==
  colorResolved(st, currentText, startsWith(lower, <<"b", "g", "_">>),
                endsWith(lower, <<"+">>),
                getColorFromText(StripAll(lower, << <<"b", "g", "_">>, <<"+">> >>)))

\* the if (key === "c") block; params[1].toLowerCase() throws when the segment
\* has one field
colorCommand(st, params, currentText) ==
  IF Len(params) < 2 THEN ParseState(st.str, st.lastColor, TRUE)
  ELSE colorLower(st, currentText, toLowerCase(params[2]))

\* a variant of command that writes the segments of the other keys as they are
commandKeeping(st, params, key, currentText) ==
  IF key = "i" THEN indexCommand(st, params, currentText)
  ELSE IF key = "s" THEN styleCommand(st, params, currentText)
  ELSE IF key = "c" THEN colorCommand(st, params, currentText)
  ELSE ParseState(st.str \o join(params, <<".">>), st.lastColor, FALSE)

\* the three blocks of the callback, by key
command(st, params, key, currentText) ==
  IF key = "i" THEN indexCommand(st, params, currentText)
  ELSE IF key = "s" THEN styleCommand(st, params, currentText)
  ELSE IF key = "c" THEN colorCommand(st, params, currentText)
  ELSE st

\* params[0].replace(commandSeparator, "").toLowerCase()[0], "" when undefined
keyOf(field, commandSep) ==
  (toLowerCase(removeFirst(field, commandSep)) \o <<"">>)[1]

\* the callback of parseString once the segment is split
parseParams(st, params, commandSep) ==
  command(st, params, keyOf(params[1], commandSep), Flatten(Drop(params, 3)))

\* one call of the forEach callback of parseString on segment i
parseSegment(st, i, commandSep, paramSep) == parseParams(st, split(i, paramSep), commandSep)

RECURSIVE parseSegments(_, _, _, _)
\* the forEach of parseString over the non-empty segments, stopping at a throw
parseSegments(st, segs, commandSep, paramSep) ==
  IF segs = <<>> \/ st.threw THEN st
  ELSE parseSegments(parseSegment(st, Head(segs), commandSep, paramSep),
                     Tail(segs), commandSep, paramSep)

\* whether a segment of text.split(commandSeparator) is kept by the filter
NonEmpty(i) == Len(i) # 0

\* a variant of parseEnd without the final reset
parseEndUnterminated(st) == IF st.threw THEN Threw ELSE Ok(st.str)

\* str += reset; return str, unless the forEach threw
parseEnd(st) == IF st.threw THEN Threw ELSE Ok(st.str \o reset)

\* parseString once the separators are set
parseWith(text, commandSep, paramSep) ==
  parseEnd(parseSegments(ParseState(<<>>, Null, FALSE),
                         SelectSeq(split(text, commandSep), NonEmpty), commandSep, paramSep))

\* parseString(text, separators)
parseString(text, separators) ==
  parseWith(text, commandSeparator(separators), paramSeparator(separators))

(***************************************************************************)
(* prepareObject and prepareCustomLog: the structured formatting           *)
(***************************************************************************)

\* a color or background of an options object: the color value (the string
\* itself, the non-boolean element of an array, or data/text/content of an
\* object) and the contrast flag (false for a string)
ColorData(value, contrast) == [value |-> value, contrast |-> contrast]

\* getColor(textCode, options) in prepareObject, c being the result of
\* getColorCode; getColorFromText may have thrown
colorCodeWith(contrast, bg, c) ==
  IF c.threw THEN Threw ELSE Ok(getColor(c.textCode, Options(bg, contrast, c.rgb)))

\* the color block (bg FALSE) or the background block (bg TRUE) of
\* prepareObject: the sequence of the color, "" when the property is absent
colorCodeOf(property, bg) ==
  IF property.isNull THEN Ok(<<>>)
  ELSE colorCodeWith(property.v.contrast, bg, getColorFromText(property.v.value))

\* if (colorCode) { args.push(cleanCode) }
pushed(colorCode) == IF colorCode # <<>> THEN <<StrElem(cleanCode(colorCode))>> ELSE <<>>

\* the end of prepareObject; STYLES[i].on throws for a name STYLES lacks
objectOf(color, back, styles) ==
  IF color.threw \/ back.threw \/ \E k \in 1..Len(styles) : ~HasStyle(styles[k])
  THEN [threw |-> TRUE, args |-> <<>>, ends |-> <<>>]
  ELSE [threw |-> FALSE,
        args  |-> pushed(color.out) \o pushed(back.out)
                  \o [k \in 1..Len(styles) |-> NumElem(StyleOn[StyleIndex(styles[k])])],
        ends  |-> [k \in 1..Len(styles) |-> NumElem(StyleOff[StyleIndex(styles[k])])]]

\* prepareObject(data): {args, ends}; data has the optional properties color,
\* background (each null when absent) and style (a list of names, a single name
\* being the list of that name, null when absent)
prepareObject(data) ==
  objectOf(colorCodeOf(data.color, FALSE), colorCodeOf(data.background, TRUE),
           IF data.style.isNull THEN <<>> ELSE data.style.v)

\* the grave accent (U+0060), one character of a string like "ESC"
Grave == "GRAVE"

\* the characters of a replacement template that start a substitution after $
SubstitutionMarks == {"$", "&", Grave, "'"}

\* whether the template starts with $$, $&, $ + grave or $ + apostrophe
IsPattern(template) ==
  Len(template) >= 2 /\ template[1] = "$" /\ template[2] \in SubstitutionMarks

\* what the start of the template (a pattern or one character) stands for
Substitute(matched, str, position, template) ==
  IF ~IsPattern(template) THEN <<template[1]>>
  ELSE IF template[2] = "$" THEN <<"$">>
  ELSE IF template[2] = "&" THEN matched
  ELSE IF template[2] = Grave THEN Take(str, position - 1)
  ELSE Drop(str, position + Len(matched))

RECURSIVE GetSubstitution(_, _, _, _)
\* GetSubstitution of ECMAScript for a string pattern (no captures): in the
\* replacement template $$ is $, $& the matched text, $ + grave the text before the
\* match and $ + apostrophe the text after it; any other character stands for itself
GetSubstitution(matched, str, position, template) ==
  IF template = <<>> THEN <<>>
  ELSE Substitute(matched, str, position, template)
       \o GetSubstitution(matched, str, position,
                          Drop(template, IF IsPattern(template) THEN 3 ELSE 2))

RECURSIVE replaceAt(_, _, _, _, _)
\* the loop of String.prototype.replaceAll from position from of str, i being
\* the position of the next occurrence (0: none)
replaceAt(str, searchValue, replaceValue, from, i) ==
  IF i = 0 THEN Drop(str, from)
  ELSE SubSeq(str, from, i - 1)
       \o GetSubstitution(searchValue, str, i, replaceValue)
       \o replaceAt(str, searchValue, replaceValue, i + Len(searchValue),
                    IndexOf(str, searchValue, i + Len(searchValue)))

\* String.prototype.replaceAll(searchValue, replaceValue) with two strings, the
\* first not empty: every occurrence found scanning left to right without
\* overlap is replaced by the substitution of the template replaceValue
replaceAll(str, searchValue, replaceValue) ==
  replaceAt(str, searchValue, replaceValue, 1, IndexOf(str, searchValue, 1))

\* the state of prepareCustomLog between entries: textContent, changedTargets,
\* targetChanges and whether prepareObject threw
CustomState(textContent, changedTargets, targetChanges, threw) ==
  [textContent |-> textContent, changedTargets |-> changedTargets,
   targetChanges |-> targetChanges, threw |-> threw]

\* ${prefix}${[args, ...globalArgs].join(";")}${postfix}: args, an array
\* inside the array, is converted by its own join(",")
onSequence(args, globalArgs) ==
  Sequence(<<join(ElemStrings(args), <<",">>)>> \o ElemStrings(globalArgs))

\* the end marker of a current: a full reset when it has a color or a
\* background, else the codes that switch its styles off; then global
endMarker(current, ends, global) ==
  IF ~current.color.isNull \/ ~current.background.isNull THEN reset \o global
  ELSE Sequence(ElemStrings(ends)) \o global

\* the callback of currents.forEach after prepareObject(current)
currentWith(st, current, global, globalArgs, po) ==
  IF po.threw THEN CustomState(st.textContent, st.changedTargets, st.targetChanges, TRUE)
  ELSE CustomState(replaceAll(st.textContent, current.target,
                              onSequence(po.args, globalArgs) \o current.target
                              \o endMarker(current, po.ends, global)),
                   Append(st.changedTargets, current.target),
                   Append(st.targetChanges, po.args), FALSE)

\* one call of the currents.forEach callback of prepareCustomLog
applyCurrent(st, current, global, globalArgs) ==
  IF current.target = <<>> THEN st
  ELSE currentWith(st, current, global, globalArgs, prepareObject(current))

RECURSIVE applyCurrents(_, _, _, _)
\* the currents.forEach of prepareCustomLog, stopping at a throw
applyCurrents(st, currents, global, globalArgs) ==
  IF currents = <<>> \/ st.threw THEN st
  ELSE applyCurrents(applyCurrent(st, Head(currents), global, globalArgs),
                     Tail(currents), global, globalArgs)

\* changedTargets.findIndex((i) => i.includes(target)), 1-based, 0 when none
findTargetUsed(changedTargets, target) ==
  First({k \in 1..Len(changedTargets) : includes(changedTargets[k], target)})

\* targetUsed >= 0 ? targetChanges[targetUsed] : []
stylesUsed(targetChanges, targetUsed) ==
  IF targetUsed > 0 THEN targetChanges[targetUsed] ELSE <<>>

\* target.split("").map(...).join(""): the characters at the (0-based) places
\* of index go through halving
markedTarget(note, styles) ==
  Flatten([num \in 1..Len(note.target) |->
             IF (num - 1) \notin note.index THEN <<note.target[num]>>
             ELSE halving(<<note.target[num]>>, note.reg, styles)])

\* one call of the notes.forEach callback: index is the set of the positions
\* listed, reg a string or undefined
applyNote(st, note) ==
  IF note.target = <<>> THEN st
  ELSE CustomState(
         replaceAll(st.textContent, note.target,
                    markedTarget(note, stylesUsed(st.targetChanges,
                                                  findTargetUsed(st.changedTargets,
                                                                 note.target)))),
         st.changedTargets, st.targetChanges, FALSE)

RECURSIVE applyNotes(_, _)
\* the notes.forEach of prepareCustomLog
applyNotes(st, notes) ==
  IF notes = <<>> THEN st ELSE applyNotes(applyNote(st, Head(notes)), Tail(notes))

\* the options argument of prepareCustomLog: null, or {all, currents, notes,
\* separators}; all is null when absent, currents and notes are lists (a single
\* object being the list of it, an absent one the empty list)
CustomOptions(all, currents, notes, separators) ==
  [isNull |-> FALSE, all |-> all, currents |-> currents, notes |-> notes,
   separators |-> separators]

NoCustomOptions ==
  [isNull |-> TRUE, all |-> Null, currents |-> <<>>, notes |-> <<>>,
   separators |-> NoSeparators]

\* a variant of delegates that looks for the configured separator only
delegatesConfigured(text, options) ==
  /\ ~options.separators.isNull
  /\ Truthy(options.separators.command)
  /\ includes(text, options.separators.command.v)

\* the condition under which prepareCustomLog hands the call to parseString
delegates(text, options) ==
  \/ /\ ~options.separators.isNull
     /\ Truthy(options.separators.command)
     /\ includes(text, options.separators.command.v)
  \/ includes(text, <<"|">>)

\* str += textContent; str += reset; return str, unless prepareObject threw
customEnd(global, st, notes) ==
  IF st.threw THEN Threw ELSE Ok(global \o applyNotes(st, notes).textContent \o reset)

\* the currents and notes blocks, global being the sequence of options.all
\* ("" without it) and po the result of prepareObject(options.all)
customBody(text, options, po, global) ==
  customEnd(global,
            applyCurrents(CustomState(text, <<>>, <<>>, po.threw), options.currents,
                          global, po.args),
            options.notes)

\* the if (options?.all) block
customGlobal(text, options, po) == customBody(text, options, po, Sequence(ElemStrings(po.args)))

\* prepareCustomLog(text, options)
prepareCustomLog(text, options) ==
  IF delegates(text, options) THEN parseString(text, options.separators)
  ELSE IF options.all.isNull
       THEN customBody(text, options, [threw |-> FALSE, args |-> <<>>, ends |-> <<>>], <<>>)
       ELSE customGlobal(text, options, prepareObject(options.all.v))

(***************************************************************************)
(* The suppression of repeated logs and the LOG functions                  *)
(***************************************************************************)

\* the log levels modelled: LOG.debug and LOG.info
Levels == {"debug", "info"}

\* the timeout of suppressionConfig and the value configureLogSuppression
\* falls back to (config.timeout || 1000)
DefaultTimeout == 1000

\* { text: null, timestamp: 0 }
NoLog == [text |-> Null, timestamp |-> 0]

\* suppressionConfig as the module is loaded
InitialConfig == [enabled |-> FALSE, timeout |-> DefaultTimeout, showCounter |-> TRUE]

\* the argument of configureLogSuppression: enabled, timeout and showCounter
\* are null when undefined
Config(enabled, timeout, showCounter, resetHistory) ==
  [enabled |-> enabled, timeout |-> timeout, showCounter |-> showCounter,
   resetHistory |-> resetHistory]

\* the assignments of configureLogSuppression to suppressionConfig
configured(config) ==
  [enabled     |-> IF config.enabled.isNull THEN TRUE ELSE config.enabled.v,
   timeout     |-> IF config.timeout.isNull \/ config.timeout.v = 0
                   THEN DefaultTimeout ELSE config.timeout.v,
   showCounter |-> IF config.showCounter.isNull THEN TRUE ELSE config.showCounter.v]

\* the key of repeatCounters: the pair stands for the string type + ":" + text
CounterKey(type, text) == <<type, text>>

\* repeatCounters.get(key) || 0
counterOf(counters, key) == IF key \in DOMAIN counters THEN counters[key] ELSE 0

\* repeatCounters.set(key, count)
counterSet(counters, key, count) ==
  [k \in DOMAIN counters \cup {key} |-> IF k = key THEN count ELSE counters[k]]

\* a variant of counterDelete that deletes the counters of the text of key at
\* every level
counterDeleteText(counters, key) ==
  [k \in {j \in DOMAIN counters : j[2] # key[2]} |-> counters[k]]

\* repeatCounters.delete(key)
counterDelete(counters, key) == [k \in DOMAIN counters \ {key} |-> counters[k]]

\* one call of a console method: the method and the string written
Line(method, str) == [method |-> method, str |-> str]

\* the characters of the words of the counter line, each named by its code
\* point: U+041F U+043E U+0432 U+0442 U+043E U+0440 U+0451 U+043D, and
\* U+0440 U+0430 U+0437
RepeatedWord == <<"U+041F", "U+043E", "U+0432", "U+0442", "U+043E", "U+0440", "U+0451", "U+043D">>

TimesWord == <<"U+0440", "U+0430", "U+0437">>

\* the multiplication sign U+00D7 of the counter of a forced repeat
TimesSign == "U+00D7"

Dim == <<"d", "i", "m">>

\* console.log(colorizeByText("[... oldCount ...]", "dim"))
counterLine(oldCount) ==
  Line("log", colorizeByText(<<"[">> \o RepeatedWord \o <<" ">> \o NatToStr(oldCount)
                             \o <<" ">> \o TimesWord \o <<"]">>, Some(Dim)).out)

\* what checkIfRepeat returns and leaves: isRepeat, count, lastLogs,
\* repeatCounters and the lines it wrote
Checked(isRepeat, count, logs, counters, lines) ==
  [isRepeat |-> isRepeat, count |-> count, lastLogs |-> logs,
   repeatCounters |-> counters, console |-> lines]

\* the end of checkIfRepeat, for a log that is not a repeat
checkNew(type, text, time, logs, counters, showCounter, key) ==
  Checked(FALSE, 0,
          [logs EXCEPT ![type] = [text |-> Some(text), timestamp |-> time]],
          counterDelete(counters, key),
          IF key \in DOMAIN counters /\ counters[key] > 0 /\ showCounter
          THEN <<counterLine(counters[key])>> ELSE <<>>)

\* the branch of checkIfRepeat for a repeat
checkRepeat(logs, counters, key, count) ==
  Checked(TRUE, count, logs, counterSet(counters, key, count), <<>>)

\* a variant of checkIfRepeat in which a repeat stores its own time
checkIfRepeatRefreshing(type, text, time, logs, counters, config) ==
  IF ~config.enabled THEN Checked(FALSE, 0, logs, counters, <<>>)
  ELSE IF /\ ~logs[type].text.isNull
          /\ logs[type].text.v = text
          /\ time - logs[type].timestamp < config.timeout
  THEN checkRepeat([logs EXCEPT ![type].timestamp = time], counters, CounterKey(type, text),
                   counterOf(counters, CounterKey(type, text)) + 1)
  ELSE checkNew(type, text, time, logs, counters, config.showCounter,
                CounterKey(type, text))

\* checkIfRepeat(type, text) with Date.now() = time
checkIfRepeat(type, text, time, logs, counters, config) ==
  IF ~config.enabled THEN Checked(FALSE, 0, logs, counters, <<>>)
  ELSE IF /\ ~logs[type].text.isNull
          /\ logs[type].text.v = text
          /\ time - logs[type].timestamp < config.timeout
  THEN checkRepeat(logs, counters, CounterKey(type, text),
                   counterOf(counters, CounterKey(type, text)) + 1)
  ELSE checkNew(type, text, time, logs, counters, config.showCounter,
                CounterKey(type, text))

\* the second argument of a LOG function: undefined, a boolean (then it is the
\* force flag) or a colour
Undefined == [kind |-> "undefined", b |-> FALSE, s |-> <<>>]

Boolean(b) == [kind |-> "boolean", b |-> b, s |-> <<>>]

Color(s) == [kind |-> "string", b |-> FALSE, s |-> s]

\* force after `if (typeof color === "boolean") force = color`
forceOf(color, force) == IF color.kind = "boolean" THEN color.b ELSE force

\* color after the same block, default being the default of the level
colorArg(color, default) == IF color.kind = "string" THEN Some(color.s) ELSE default

\* the default of the parameter color of LOG.debug
Blue == Some(<<"b", "l", "u", "e">>)

\* colorizeByText("[xN]", "dim"), x being the multiplication sign and N
\* count + 1
counterText(count) ==
  colorizeByText(<<"[", TimesSign>> \o NatToStr(count + 1) \o <<"]">>, Some(Dim)).out

\* a variant of suppressed that ignores the force flag
suppressedForced(force, isRepeat, config) == isRepeat /\ config.enabled

\* whether the call returns before writing
suppressed(force, isRepeat, config) == ~force /\ isRepeat /\ config.enabled

\* whether the counter is written after the message
counted(r, config) == r.isRepeat /\ r.count > 0 /\ config.showCounter

\* the string LOG.debug writes
debugString(text, color, r, config) ==
  IF counted(r, config)
  THEN colorizeByText(text, color).out \o <<" ">> \o counterText(r.count)
  ELSE colorizeByText(text, color).out

\* colorizeByText(" [xN]", "dim"), the counter LOG.info adds to a coloured
\* message
infoCounterText(count) ==
  colorizeByText(<<" ", "[", TimesSign>> \o NatToStr(count + 1) \o <<"]">>, Some(Dim)).out

\* the string LOG.info writes: the text as it is when no colour is given
infoString(text, color, r, config) ==
  IF ~Truthy(color)
  THEN IF counted(r, config) THEN text \o <<" ">> \o counterText(r.count) ELSE text
  ELSE IF counted(r, config)
       THEN colorizeByText(text, color).out \o infoCounterText(r.count)
       ELSE colorizeByText(text, color).out

\* the string a LOG function writes
stringOf(level, text, color, r, config) ==
  IF level = "debug" THEN debugString(text, color, r, config)
  ELSE infoString(text, color, r, config)

\* the lines of one LOG call: those of checkIfRepeat, then its own unless the
\* call is suppressed
written(level, text, color, force, r, config) ==
  IF suppressed(force, r.isRepeat, config) THEN r.console
  ELSE Append(r.console, Line(level, stringOf(level, text, color, r, config)))

(***************************************************************************)
(* The calls explored                                                      *)
(***************************************************************************)

\* the most segments between command separators in an inline text
MaxSegs == 2

\* the most entries of options.currents
MaxCurrents == 1

\* the most digit runs in an argument of parseRGB
MaxRuns == 4

\* the sequences of at most n elements of S
SeqsUpTo(S, n) == UNION {[1..k -> S] : k \in 0..n}

\* the segments inline texts are made of: commands with good and bad
\* arguments, and literal text
SegmentPool ==
  {<<"c", ".", "r", "e", "d", ".", "A">>, <<"c", ".", "b", "g", "_", "b", "l", "u", "e", "+", ".", "A">>, <<"c", ".", "#", "f", "0", "0", ".", "A">>, <<"c", ".", "#", "f", "f", ".", "A">>, <<"c", ".", "z", "z", ".", "A">>, <<"c", "a", "t">>,
   <<"s", ".", "b", "o", "l", "d", ".", "C">>, <<"s", ".", "f", "a", "t", ".", "C">>, <<"i", ".", "u", "p", ".", "2">>, <<" ", "B", " ">>, <<"s", "e", "e", ".", "y", "o", "u", ".", "X">>, <<"H", "e", "l", "l", "o">>, <<"c", "/", "5", "/", "A">>}

\* the separator written around and between the segments of a text, with the
\* separators argument of the call
Framings ==
  {<<<<"|">>, NoSeparators>>, <<<<>>, NoSeparators>>,
   <<<<"-">>, Separators(Some(<<"-">>), Some(<<"/">>))>>,
   <<<<"|">>, Separators(Some(<<>>), Null)>>}

\* the text whose segments are segs, framed by the separator f
InlineText(segs, f) == f \o join(segs, f) \o f

\* the calls of parseString
InlineCalls ==
  {[fn |-> "parseString", segs |-> segs, frame |-> fr[1],
    text |-> InlineText(segs, fr[1]), separators |-> fr[2]] :
     segs \in SeqsUpTo(SegmentPool, MaxSegs), fr \in Framings}

\* an object with the optional properties color, background and style, and the
\* target of a currents entry
StyleObject(target, color, background, style) ==
  [target |-> target, color |-> color, background |-> background, style |-> style]

Red == StyleObject(<<>>, Some(ColorData(<<"r", "e", "d">>, FALSE)), Null, Null)

ShortHex == StyleObject(<<>>, Some(ColorData(<<"#", "f", "f">>, FALSE)), Null, Null)

Rgb == StyleObject(<<>>, Some(ColorData(<<"1", ",", "2", ",", "3">>, FALSE)), Null, Null)

Fat == StyleObject(<<>>, Null, Null, Some(<<<<"f", "a", "t">>>>))

Bold == StyleObject(<<>>, Null, Null, Some(<<<<"b", "o", "l", "d">>>>))

Full ==
  StyleObject(<<>>, Some(ColorData(<<"1", ",", "2", ",", "3">>, FALSE)), Some(ColorData(<<"b", "l", "u", "e">>, TRUE)),
              Some(<<<<"b", "o", "l", "d">>, <<"i", "t", "a", "l", "i", "c">>>>))

\* the values of options.all
AllChoices == {Null, Some(Red), Some(Fat), Some(Full)}

\* the entries of options.currents
CurrentPool ==
  {[f EXCEPT !.target = <<"a">>] : f \in {Red, Rgb, ShortHex, Fat, Bold, Full}}
  \cup {[Red EXCEPT !.target = <<"$", "$">>], Red}

\* an entry of options.notes
Note(target, index, reg) == [target |-> target, index |-> index, reg |-> reg]

\* the values of options.notes
NotesChoices ==
  {<<>>, <<Note(<<"a">>, {0}, Some(<<"u", "p">>))>>, <<Note(<<"H", "2", "O">>, {1}, Some(<<"d", "o", "w", "n">>))>>}

\* the texts of the calls of prepareCustomLog, with options.separators
StructTexts ==
  {<<<<"a", "a">>, NoSeparators>>, <<<<"a", "$", "$", "b">>, NoSeparators>>, <<<<"H", "2", "O">>, NoSeparators>>,
   <<<<"|", "c", ".", "r", "e", "d", ".", "a", "|">>, NoSeparators>>, <<<<"a", "-", "b">>, NoSeparators>>,
   <<<<"|", "c", ".", "r", "e", "d", ".", "a", "|">>, Separators(Some(<<"-">>), Some(<<"/">>))>>,
   <<<<"a", "-", "b">>, Separators(Some(<<"-">>), Some(<<"/">>))>>}

\* the calls of prepareCustomLog
StructCalls ==
  {[fn |-> "prepareCustomLog", text |-> t[1],
    options |-> CustomOptions(all, currents, notes, t[2])] :
     t \in StructTexts, all \in AllChoices,
     currents \in SeqsUpTo(CurrentPool, MaxCurrents), notes \in NotesChoices}

\* the colour codes given to colorizeByText
CodeChoices ==
  {Null} \cup
  {Some(c) : c \in {<<>>, <<"r", "e", "d">>, <<"R", "E", "D">>, <<"d", "a", "r", "k", "r", "e", "d">>, <<"z", "z">>, <<"d", "i", "m">>, <<"#", "f", "0", "0">>,
                    <<"#", "f", "f", "0", "0", "0", "0">>, <<"#", "f", "f", "0", "0", "0", "0", "f", "f">>, <<"#", "f", "f">>, <<"#", "f", "f", "f", "f">>, <<"#">>, <<"2", "5", "5", ",", "0", ",", "0">>,
                    <<"5">>, <<"1", "-", "2">>, <<"r", "g", "b", "2", "5", "5">>, <<"r", "g", "b">>, <<"a", "1", "b", "2">>, <<"1", "e", "3">>, <<"0", "x", "1", "0">>}}

\* the calls of colorizeByText
ColorizeCalls == {[fn |-> "colorizeByText", text |-> <<"h", "i">>, code |-> c] : c \in CodeChoices}

\* the calls of getColorFromText
ClassifyCalls ==
  {[fn |-> "getColorFromText", code |-> c.v] : c \in CodeChoices \ {Null}}

\* the digit runs and the separators between them in the arguments of parseRGB
RunPool == {<<"2", "5", "5">>, <<"2", "5", "6">>}

DelimiterPool == {<<",">>, <<"-">>, <<".">>, <<"/">>}

\* what is written before and after the runs
Wrappings == {<< <<>>, <<>> >>, <<<<"r", "g", "b", "(">>, <<")">>>>}

\* the runs with a delimiter before each but the first: odd and even for
\* the delimiters before the runs at odd and even places
Interleave(runs, odd, even) ==
  Flatten([k \in 1..Len(runs) |->
             (IF k = 1 THEN <<>> ELSE IF k % 2 = 1 THEN odd ELSE even) \o runs[k]])

\* the calls of parseRGB
RgbCalls ==
  {[fn |-> "parseRGB", runs |-> c[1],
    input |-> c[4][1] \o Interleave(c[1], c[2], c[3]) \o c[4][2]] :
     c \in SeqsUpTo(RunPool, MaxRuns) \X DelimiterPool \X DelimiterPool \X Wrappings}

\* the clock advances by Step ms, MaxTicks times at most
Step == 500

MaxTicks == 2

\* the largest repeat counter explored
MaxCount == 1

\* a Date.now() later than every timeout
Epoch == 2 * DefaultTimeout

\* the texts logged
LogTexts == {<<"A">>, <<"B">>}

\* the second and third arguments of the LOG calls
LogArgs == {<<Undefined, FALSE>>, <<Boolean(TRUE), FALSE>>, <<Color(<<"r", "e", "d">>), TRUE>>}

\* the second and third arguments of the calls of LOG.info
InfoArgs == {<<Undefined, FALSE>>}

\* the second and third arguments of LOG.debug when LOG.info is called too
BesideArgs == {<<Undefined, FALSE>>, <<Boolean(TRUE), FALSE>>}

\* the arguments of configureLogSuppression when two levels are in use
LevelConfigs ==
  {Config(Some(TRUE), Some(0), Some(TRUE), TRUE),
   Config(Some(TRUE), Some(Step), Some(FALSE), FALSE)}

\* the texts of the calls of LOG.info
InfoTexts == {<<"A">>}

\* the arguments of configureLogSuppression
ConfigChoices ==
  {Config(Null, Null, Null, FALSE), Config(Some(TRUE), Some(0), Some(TRUE), TRUE),
   Config(Some(TRUE), Some(Step), Some(FALSE), FALSE),
   Config(Some(FALSE), Some(Step), Null, FALSE)}

(***************************************************************************)
(* The state                                                               *)
(***************************************************************************)

\* pc, call, ret: a call of a formatting function, before ("ready") and after
\* ("done") it ran, and what it returned.  now: Date.now().  lastLogs,
\* suppressionConfig, repeatCounters: the variables of the module.  console:
\* the lines the latest operation wrote.  op: the latest operation (last) and
\* the one before it (prev)
VARIABLES pc, call, ret, now, lastLogs, suppressionConfig, repeatCounters,
          console, op

formatVars == <<pc, call, ret>>

logVars == <<now, lastLogs, suppressionConfig, repeatCounters, console, op>>

vars == <<pc, call, ret, now, lastLogs, suppressionConfig, repeatCounters, console, op>>

\* an operation on the logger: for a LOG call (kind "log") its level, text
\* and force flag, Date.now(), whether checkIfRepeat found a repeat and
\* whether suppression was enabled
Operation(kind, level, text, time, force, isRepeat, enabled) ==
  [kind |-> kind, level |-> level, text |-> text, time |-> time, force |-> force,
   isRepeat |-> isRepeat, enabled |-> enabled]

\* an operation that is not a LOG call
Other(kind) == Operation(kind, "", <<>>, 0, FALSE, FALSE, FALSE)

\* the module as it is loaded
LoggerInit ==
  /\ now = Epoch
  /\ lastLogs = [l \in Levels |-> NoLog]
  /\ suppressionConfig = InitialConfig
  /\ repeatCounters = <<>>
  /\ console = <<>>
  /\ op = [last |-> Other("load"), prev |-> Other("load")]

\* a formatting function is about to be called
Init ==
  /\ pc = "ready"
  /\ call \in InlineCalls \cup StructCalls \cup ColorizeCalls \cup RgbCalls
              \cup ClassifyCalls
  /\ ret = Null
  /\ LoggerInit

\* parseString(text, separators)
FormatInline ==
  /\ pc = "ready" /\ call.fn = "parseString"
  /\ ret' = parseString(call.text, call.separators)
  /\ pc' = "done"
  /\ UNCHANGED <<call, logVars>>

\* prepareCustomLog(text, options)
FormatStructured ==
  /\ pc = "ready" /\ call.fn = "prepareCustomLog"
  /\ ret' = prepareCustomLog(call.text, call.options)
  /\ pc' = "done"
  /\ UNCHANGED <<call, logVars>>

\* colorizeByText(text, code)
Colorize ==
  /\ pc = "ready" /\ call.fn = "colorizeByText"
  /\ ret' = colorizeByText(call.text, call.code)
  /\ pc' = "done"
  /\ UNCHANGED <<call, logVars>>

\* parseRGB(input)
ParseRGB ==
  /\ pc = "ready" /\ call.fn = "parseRGB"
  /\ ret' = parseRGB(call.input)
  /\ pc' = "done"
  /\ UNCHANGED <<call, logVars>>

\* getColorFromText(code)
GetColorFromText ==
  /\ pc = "ready" /\ call.fn = "getColorFromText"
  /\ ret' = getColorFromText(call.code)
  /\ pc' = "done"
  /\ UNCHANGED <<call, logVars>>

Next == FormatInline \/ FormatStructured \/ Colorize \/ ParseRGB \/ GetColorFromText

Spec == Init /\ [][Next]_vars

(***************************************************************************)
(* The logger                                                              *)
(***************************************************************************)

\* the module is loaded and no formatting function is called
InitLog ==
  /\ pc = "idle"
  /\ call = [fn |-> "none"]
  /\ ret = Null
  /\ LoggerInit

\* the assignments of one LOG call, r being the result of checkIfRepeat; the
\* call is explored while its counter stays within MaxCount
LogWith(level, text, color, force, r) ==
  /\ r.count <= MaxCount
  /\ lastLogs' = r.lastLogs
  /\ repeatCounters' = r.repeatCounters
  /\ console' = written(level, text, color, force, r, suppressionConfig)
  /\ op' = [last |-> Operation("log", level, text, now, force, r.isRepeat,
                                suppressionConfig.enabled),
            prev |-> op.last]
  /\ UNCHANGED <<now, suppressionConfig, formatVars>>

\* LOG.debug(text, color, force)
debug(text, color, force) ==
  LogWith("debug", text, colorArg(color, Blue), forceOf(color, force),
          checkIfRepeat("debug", text, now, lastLogs, repeatCounters, suppressionConfig))

LogDebug == \E text \in LogTexts, a \in LogArgs : debug(text, a[1], a[2])

\* LOG.info(text, color, force)
info(text, color, force) ==
  LogWith("info", text, colorArg(color, Null), forceOf(color, force),
          checkIfRepeat("info", text, now, lastLogs, repeatCounters, suppressionConfig))

LogInfo == \E text \in InfoTexts, a \in InfoArgs : info(text, a[1], a[2])

\* LOG.debug called next to LOG.info
LogDebugBeside == \E text \in LogTexts, a \in BesideArgs : debug(text, a[1], a[2])

\* an operation that is not a LOG call is the latest one; it writes nothing
Configured(kind) ==
  /\ console' = <<>>
  /\ op' = [last |-> Other(kind), prev |-> op.last]
  /\ UNCHANGED <<now, formatVars>>

\* configureLogSuppression(config)
configureLogSuppression(config) ==
  /\ suppressionConfig' = configured(config)
  /\ lastLogs' = IF config.resetHistory THEN [l \in Levels |-> NoLog] ELSE lastLogs
  /\ UNCHANGED repeatCounters
  /\ Configured("configure")

Configure == \E config \in ConfigChoices : configureLogSuppression(config)

\* LOG.resetSuppression()
ResetSuppression ==
  /\ lastLogs' = [l \in Levels |-> NoLog]
  /\ repeatCounters' = <<>>
  /\ UNCHANGED suppressionConfig
  /\ Configured("reset")

\* a variant of LOG.enableSuppression() that sets enabled and keeps the rest of
\* suppressionConfig
EnableSuppressionOnly ==
  /\ suppressionConfig' = [suppressionConfig EXCEPT !.enabled = TRUE]
  /\ UNCHANGED <<lastLogs, repeatCounters>>
  /\ Configured("enable")

\* LOG.enableSuppression()
EnableSuppression ==
  /\ suppressionConfig' = configured(Config(Some(TRUE), Null, Null, FALSE))
  /\ UNCHANGED <<lastLogs, repeatCounters>>
  /\ Configured("enable")

\* LOG.disableSuppression()
DisableSuppression ==
  /\ suppressionConfig' = configured(Config(Some(FALSE), Null, Null, FALSE))
  /\ UNCHANGED <<lastLogs, repeatCounters>>
  /\ Configured("disable")

\* time passes between two operations
Advance ==
  /\ now < Epoch + MaxTicks * Step
  /\ now' = now + Step
  /\ UNCHANGED <<lastLogs, suppressionConfig, repeatCounters, console, op, formatVars>>

NextLog ==
  \/ LogDebug
  \/ Configure
  \/ ResetSuppression
  \/ EnableSuppression
  \/ DisableSuppression
  \/ Advance

SpecLog == InitLog /\ [][NextLog]_vars

\* configureLogSuppression called with two levels in use
ConfigureLevels == \E config \in LevelConfigs : configureLogSuppression(config)

\* the logger with two of its levels in use
NextLevels ==
  \/ LogDebugBeside
  \/ LogInfo
  \/ ConfigureLevels
  \/ ResetSuppression
  \/ Advance

SpecLevels == InitLog /\ [][NextLevels]_vars

(***************************************************************************)
(* Properties of the formatting functions                                  *)
(***************************************************************************)

\* the call of the function fn has returned or thrown
Done(fn) == pc = "done" /\ call.fn = fn

\* the text of an inline call is framed by the command separator of the call
Framed == call.frame # <<>> /\ call.frame = commandSeparator(call.separators)

\* C1: parseString never raises: every call of it, whatever the text and the
\* separators, returns a string
C1_NeverRaises == Done("parseString") => ~ret.threw

\* C2: whenever parseString or prepareCustomLog returns, the string returned
\* ends with the full reset sequence ESC[0m
C2_EndsWithReset ==
  (pc = "done" /\ call.fn \in {"parseString", "prepareCustomLog"} /\ ~ret.threw)
    => endsWith(ret.out, reset)

\* prepareCustomLog returned from a call with options.all, a currents entry
\* and a note, which it did not hand to parseString
C2_Witness ==
  /\ Done("prepareCustomLog")
  /\ ~ret.threw
  /\ ~delegates(call.text, call.options)
  /\ ~call.options.all.isNull
  /\ call.options.currents # <<>>
  /\ call.options.notes # <<>>
  /\ Len(ret.out) > Len(reset)

\* C4: for every text that contains "|", prepareCustomLog(text, options) returns
\* exactly parseString(text, options.separators), whatever all, currents and
\* notes are
C4_DelegationPrecedence ==
  (Done("prepareCustomLog") /\ includes(call.text, <<"|">>))
    => ret = parseString(call.text, call.options.separators)

\* a text with "|" was formatted with options.all and a currents entry given
C4_Witness ==
  /\ Done("prepareCustomLog")
  /\ includes(call.text, <<"|">>)
  /\ ~call.options.all.isNull
  /\ call.options.currents # <<>>
  /\ ~ret.threw
  /\ Len(ret.out) > Len(reset)

RECURSIVE LiteralReplace(_, _, _)
\* str with every occurrence of target, found from left to right without
\* overlap, replaced by the characters of replacement as they are
LiteralReplace(str, target, replacement) ==
  IF str = <<>> THEN <<>>
  ELSE IF MatchAt(str, target, 1)
       THEN replacement \o LiteralReplace(Drop(str, Len(target) + 1), target, replacement)
       ELSE <<Head(str)>> \o LiteralReplace(Tail(str), target, replacement)

\* on-sequence + target + end marker of a currents entry, po being its codes
Marked(current, po, global, globalArgs) ==
  onSequence(po.args, globalArgs) \o current.target \o endMarker(current, po.ends, global)

RECURSIVE LiteralCurrents(_, _, _, _)
\* the text after the entries of currents, in order, each replacing every
\* occurrence of its target in the text accumulated so far
LiteralCurrents(text, currents, global, globalArgs) ==
  IF currents = <<>> THEN text
  ELSE LiteralCurrents(
         IF Head(currents).target = <<>> THEN text
         ELSE LiteralReplace(text, Head(currents).target,
                             Marked(Head(currents), prepareObject(Head(currents)),
                                    global, globalArgs)),
         Tail(currents), global, globalArgs)


\* C5: in prepareCustomLog on a text without a command separator, every
\* occurrence of the target of each currents entry, in array order and on the
\* text accumulated so far, is replaced by on-sequence + target + end marker
C5_AllOccurrencesReplaced ==
  (/\ Done("prepareCustomLog")
   /\ ~delegates(call.text, call.options)
   /\ call.options.all.isNull
   /\ call.options.notes = <<>>
   /\ ~ret.threw)
    => ret.out = LiteralCurrents(call.text, call.options.currents, <<>>, <<>>) \o reset

\* a hex code whose count of characters after # is not 3, 6 or 8
IsBadHex(code) == startsWith(code, <<"#">>) /\ (Len(code) - 1) \notin {3, 6, 8}

\* C6: a hex code whose digit count is not 3, 6 or 8 resolves to no colour,
\* without an exception, and the text passes through uncoloured: in
\* colorizeByText, in the c command of parseString and in the color of a
\* currents entry of prepareCustomLog
C6_BadHexPassesThrough ==
  /\ (Done("colorizeByText") /\ Truthy(call.code) /\ IsBadHex(call.code.v))
       => ret = Ok(call.text \o reset)
  /\ (Done("parseString") /\ call.segs = <<<<"c", ".", "#", "f", "f", ".", "A">>>> /\ call.frame = <<"|">>
      /\ call.separators = NoSeparators)
       => ret = Ok(<<"A">> \o reset)
  /\ (Done("prepareCustomLog") /\ ~delegates(call.text, call.options)
      /\ call.options.all.isNull /\ call.options.notes = <<>>
      /\ call.options.currents = <<[ShortHex EXCEPT !.target = <<"a">>]>>)
       => ~ret.threw

\* whether the style of an object has a name STYLES lacks
HasUnknownStyle(data) ==
  ~data.style.isNull /\ \E k \in 1..Len(data.style.v) : ~HasStyle(data.style.v[k])

\* C7: an unknown style name contributes no codes and the text is kept,
\* without an error: in the s command of parseString and in the style of
\* options.all and of the currents entries of prepareCustomLog
C7_UnknownStyleIgnored ==
  /\ (Done("parseString") /\ call.segs = <<<<"s", ".", "f", "a", "t", ".", "C">>>> /\ call.frame = <<"|">>
      /\ call.separators = NoSeparators)
       => ret = Ok(<<"C">> \o reset)
  /\ (Done("prepareCustomLog") /\ ~delegates(call.text, call.options)
      /\ call.options.notes = <<>> /\ call.options.currents = <<>>
      /\ ~call.options.all.isNull /\ HasUnknownStyle(call.options.all.v))
       => ret = Ok(call.text \o reset)
  /\ (Done("prepareCustomLog") /\ ~delegates(call.text, call.options)
      /\ call.options.notes = <<>> /\ call.options.all.isNull
      /\ Len(call.options.currents) = 1
      /\ call.options.currents[1].target # <<>>
      /\ HasUnknownStyle(call.options.currents[1]))
       => ret = Ok(call.text \o reset)

\* C8: for every text without the command separator, parseString returns the
\* text followed by one full reset
C8_PlainTextKept ==
  (Done("parseString") /\ ~includes(call.text, commandSeparator(call.separators)))
    => ret = Ok(call.text \o reset)

\* the decimal value of a run of digits
RunValue(run) == DigitsValue(run, 10, 0)

\* the first three at most of the runs, each reduced modulo 256
FirstThree(runs) ==
  [k \in 1..(IF Len(runs) < 3 THEN Len(runs) ELSE 3) |-> Num(RunValue(runs[k]) % 256)]

\* C9: parseRGB of a non-empty string returns its first three maximal digit
\* runs at most, in order, each reduced modulo 256, whatever separates them
C9_DelimiterInvariant ==
  (Done("parseRGB") /\ call.input # <<>>)
    => (~ret.isNull /\ ret.v = FirstThree(call.runs))

\* parseRGB was given more than three runs separated by "/" and "-", the
\* first of them 256
C9_Witness ==
  /\ Done("parseRGB")
  /\ Len(call.runs) > 3
  /\ call.runs[1] = <<"2", "5", "6">>
  /\ call.runs[2] = <<"2", "5", "5">>
  /\ includes(call.input, <<"/">>)
  /\ includes(call.input, <<"-">>)
  /\ ret.v = <<Num(0), Num(255), Num(RunValue(call.runs[3]) % 256)>>

\* the field of a segment before the first parameter separator
FirstField(seg, paramSep) == split(seg, paramSep)[1]

\* a recognized command: a kind letter, then an argument
IsCommand(params) == Len(params) >= 2 /\ toLowerCase(params[1]) \in {<<"c">>, <<"s">>, <<"i">>}

\* whether the field, lower-cased, begins with c, s or i
BeginsWithKind(field) == field # <<>> /\ LowerChar(field[1]) \in {"c", "s", "i"}

RECURSIVE Commands(_, _)
\* the segments that are recognized commands
Commands(segs, paramSep) ==
  IF segs = <<>> THEN <<>>
  ELSE (IF IsCommand(split(Head(segs), paramSep)) THEN <<Head(segs)>> ELSE <<>>)
       \o Commands(Tail(segs), paramSep)

RECURSIVE KindSegments(_, _)
\* the segments whose first field, lower-cased, begins with c, s or i
KindSegments(segs, paramSep) ==
  IF segs = <<>> THEN <<>>
  ELSE (IF BeginsWithKind(FirstField(Head(segs), paramSep)) THEN <<Head(segs)>> ELSE <<>>)
       \o KindSegments(Tail(segs), paramSep)

\* C10 as stated: in a text with the command separator, a segment that is
\* literal text and not a command, whatever its first character, contributes
\* nothing and causes no error: the call returns what it returns for the
\* commands alone
C10_LiteralDropped ==
  (Done("parseString") /\ Framed)
    => ret = parseString(InlineText(Commands(call.segs, paramSeparator(call.separators)),
                                    call.frame),
                         call.separators)

\* C10 amended: in a text with the command separator, a non-empty segment
\* whose first field, lower-cased, does not begin with c, s or i contributes
\* nothing and causes no error: the call returns what it returns for the other
\* segments alone
C10_OtherKeysDropped ==
  (Done("parseString") /\ Framed)
    => ret = parseString(InlineText(KindSegments(call.segs, paramSeparator(call.separators)),
                                    call.frame),
                         call.separators)

\* a text with a colour command and the literal segment " B " was formatted
C10_Witness ==
  /\ Done("parseString")
  /\ Framed
  /\ call.segs = <<<<"c", ".", "r", "e", "d", ".", "A">>, <<" ", "B", " ">>>>
  /\ ~ret.threw
  /\ ~includes(ret.out, <<"B">>)
  /\ includes(ret.out, <<"A">>)

(***************************************************************************)
(* Properties of the logger                                                *)
(***************************************************************************)

\* the latest two operations are LOG calls of one level with the same text,
\* less than the timeout apart, with suppression enabled
TwoCallsWithinTimeout ==
  /\ op.last.kind = "log" /\ op.prev.kind = "log"
  /\ op.last.level = op.prev.level
  /\ op.last.text = op.prev.text
  /\ op.last.enabled /\ op.prev.enabled
  /\ op.last.time - op.prev.time < suppressionConfig.timeout

\* the latest LOG call wrote its message with the console method of its level
MessageWritten ==
  \E k \in 1..Len(console) :
    console[k].method = op.last.level /\ includes(console[k].str, op.last.text)

\* what C3 says of the second of two calls
SecondCallSuppressed == IF op.last.force THEN MessageWritten ELSE console = <<>>

\* C3 as stated: with suppression enabled and timeout T, when a level is called
\* twice with the same text less than T ms apart, the second call writes
\* nothing unless force is set, and writes the message if it is
C3_RepeatWithinTimeout == TwoCallsWithinTimeout => SecondCallSuppressed

\* C3 amended: the same, when the first of the two calls was not itself
\* classified as a repeat (it was taken as a new log and stored its time)
C3_RepeatAfterNewLog ==
  (TwoCallsWithinTimeout /\ ~op.prev.isRepeat) => SecondCallSuppressed

\* a new log was followed, some time later within the timeout, by a call with
\* the same text and no force, which wrote nothing
C3_Witness ==
  /\ TwoCallsWithinTimeout
  /\ ~op.prev.isRepeat
  /\ op.last.time > op.prev.time
  /\ ~op.last.force
  /\ console = <<>>
  /\ counterOf(repeatCounters, CounterKey(op.last.level, op.last.text)) = 1

(***************************************************************************)
(* Properties of the colour forms                                          *)
(***************************************************************************)

\* the characters C11 names as delimiters of an RGB-like token
Delimiters == {".", ",", "-", "/", "\\"}

\* a token that contains a delimiter or consists purely of digits
DelimitedOrDigits(code) ==
  \/ \E k \in 1..Len(code) : code[k] \in Delimiters
  \/ (code # <<>> /\ \A k \in 1..Len(code) : code[k] \in Digits)

\* parseRGB's result as getColorFromText keeps it: null for no component
Kept(rgbArray) == IF rgbArray.v = <<>> THEN Null ELSE rgbArray

\* getColorFromText took the one path of the code: the hex path for a leading
\* #, else the RGB-like path when rgbLike holds, else the named-colour path
TookPath(code, rgbLike) ==
  IF startsWith(code, <<"#">>) THEN ret.textCode = <<>> /\ ret.rgb = hexToRgb(code)
  ELSE IF rgbLike THEN ret.textCode = <<>> /\ ret.rgb = Kept(parseRGB(code))
  ELSE ret.textCode = code /\ ret.rgb.isNull

\* C11 as stated: a token with a leading # takes the hex path; otherwise it
\* takes the RGB-like path if and only if it contains one of . , - / \ or
\* consists purely of digits; every other token takes the named-colour path
C11_Precedence ==
  (Done("getColorFromText") /\ ~ret.threw)
    => TookPath(call.code, DelimitedOrDigits(call.code))

\* C11 amended: the same, the RGB-like path being taken also by a token that
\* contains the letters rgb in any case and by a token that JavaScript
\* converts to a number (such as 1e3 or 0x10)
C11_PrecedenceOfCode ==
  (Done("getColorFromText") /\ ~ret.threw)
    => TookPath(call.code,
                \/ DelimitedOrDigits(call.code)
                \/ includes(toLowerCase(call.code), <<"r", "g", "b">>)
                \/ ~isNaNNumber(call.code))

\* the token rgb255, with no delimiter, took the RGB-like path
C11_Witness ==
  /\ Done("getColorFromText")
  /\ call.code = <<"r", "g", "b", "2", "5", "5">>
  /\ ret.textCode = <<>>
  /\ ret.rgb = Some(<<Num(255)>>)

\* the parameters of the colour of a colour command of SegmentPool that
\* resolves, as the terminal reads them
ColorParameters(seg) ==
  IF seg = <<"c", ".", "r", "e", "d", ".", "A">> THEN <<"3", "1">>
  ELSE IF seg = <<"c", ".", "b", "g", "_", "b", "l", "u", "e", "+", ".", "A">> THEN <<"1", "0", "4">>
  ELSE <<"3", "8", ";", "2", ";", "2", "5", "5", ";", "0", ";", "0">>

\* text between an index-on and the index-off sequence that carry parameters
Indexed(code, text, parameters) ==
  Sequence(<<code, parameters>>) \o text \o Sequence(<<<<"7", "5">>, parameters>>)

\* C12: the on and off sequences of an index marker contain the complete
\* parameter list of the surrounding colour after the index code: for an i
\* command that follows a c command, and for a note whose target a currents
\* entry coloured
C12_IndexInheritsColor ==
  /\ (/\ Done("parseString")
      /\ call.frame = <<"|">> /\ call.separators = NoSeparators
      /\ Len(call.segs) = 2
      /\ call.segs[1] \in {<<"c", ".", "r", "e", "d", ".", "A">>, <<"c", ".", "b", "g", "_", "b", "l", "u", "e", "+", ".", "A">>, <<"c", ".", "#", "f", "0", "0", ".", "A">>}
      /\ call.segs[2] = <<"i", ".", "u", "p", ".", "2">>)
       => ret = Ok(Sequence(<<ColorParameters(call.segs[1])>>) \o <<"A">>
                   \o Indexed(<<"7", "4">>, <<"2">>, ColorParameters(call.segs[1])) \o reset)
  /\ (/\ Done("prepareCustomLog")
      /\ call.text = <<"a", "a">> /\ call.options.separators = NoSeparators
      /\ call.options.all.isNull
      /\ call.options.currents \in {<<[Red EXCEPT !.target = <<"a">>]>>,
                                    <<[Rgb EXCEPT !.target = <<"a">>]>>}
      /\ call.options.notes = <<Note(<<"a">>, {0}, Some(<<"u", "p">>))>>)
       => /\ ~ret.threw
          /\ includes(ret.out,
                      Indexed(<<"7", "4">>, <<"a">>,
                              join(ElemStrings(prepareObject(call.options.currents[1]).args),
                                   <<";">>)))

\* an inline call with the default separators whose segments are segs
DefaultInline(segs) ==
  /\ Done("parseString")
  /\ call.frame = <<"|">> /\ call.separators = NoSeparators
  /\ call.segs = segs

\* text between the on and off sequences of bold with the given parameters
\* after the style codes
Bolded(text, parameters) ==
  Sequence(<<<<"1">>>> \o parameters) \o text \o Sequence(<<<<"2", "2">>>> \o parameters)

\* C13 for an s command after a colour command that resolved: the style
\* codes are joined with the parameters of the colour
StyleAfterColor ==
  \A seg \in {<<"c", ".", "r", "e", "d", ".", "A">>, <<"c", ".", "b", "g", "_", "b", "l", "u", "e", "+", ".", "A">>, <<"c", ".", "#", "f", "0", "0", ".", "A">>} :
    DefaultInline(<<seg, <<"s", ".", "b", "o", "l", "d", ".", "C">>>>)
      => ret = Ok(Sequence(<<ColorParameters(seg)>>) \o <<"A">>
                  \o Bolded(<<"C">>, <<ColorParameters(seg)>>) \o reset)

\* C13 for an s command with no colour command before it
StyleAlone == DefaultInline(<<<<"s", ".", "b", "o", "l", "d", ".", "C">>>>) => ret = Ok(Bolded(<<"C">>, <<>>) \o reset)

\* C13 for an s command after a colour command that did not resolve
StyleAfterUnresolved ==
  DefaultInline(<<<<"c", ".", "z", "z", ".", "A">>, <<"s", ".", "b", "o", "l", "d", ".", "C">>>>) => ret = Ok(<<"A">> \o Bolded(<<"C">>, <<>>) \o reset)

\* C13: an s command with a known style joins the style-on and style-off
\* codes by ; with the parameters of the last colour resolved before it; when
\* no colour was resolved (no c command, or an unresolvable colour) the
\* sequences hold the style code alone, with no empty parameter
C13_StyleKeepsColor == StyleAfterColor /\ StyleAlone /\ StyleAfterUnresolved

\* a list of non-empty decimal integers joined by ;
IsParameterList(parameters) ==
  /\ parameters # <<>>
  /\ \A k \in 1..Len(parameters) : parameters[k] \in Digits \cup {";"}
  /\ parameters[1] # ";" /\ parameters[Len(parameters)] # ";"
  /\ \A k \in 1..(Len(parameters) - 1) : ~(parameters[k] = ";" /\ parameters[k + 1] = ";")

\* the characters after ESC[ at position k of out up to the final character
\* are a parameter list and the final character is m
Terminated(out, k, parameters) ==
  /\ IsParameterList(parameters)
  /\ k + 2 + Len(parameters) <= Len(out)
  /\ out[k + 2 + Len(parameters)] = "m"

\* an escape sequence starts at position k of out and is well-formed
WellFormedAt(out, k) ==
  /\ k + 1 <= Len(out)
  /\ out[k + 1] = "["
  /\ Terminated(out, k, TakeWhile(Drop(out, k + 2), Digits \cup {";"}))

\* every escape sequence of out is well-formed
WellFormed(out) == \A k \in 1..Len(out) : out[k] = "ESC" => WellFormedAt(out, k)

\* C14: every escape sequence parseString and prepareCustomLog emit is ESC[,
\* a list of non-empty decimal integers joined by ;, and m: the global
\* sequence, the on-sequence of a currents entry that combines colour,
\* background and style with the global codes, and the end markers included
C14_WellFormedSequences ==
  (pc = "done" /\ call.fn \in {"parseString", "prepareCustomLog"} /\ ~ret.threw)
    => WellFormed(ret.out)

\* C14 for the calls of prepareCustomLog on their own
WellFormedStructured == Done("prepareCustomLog") => C14_WellFormedSequences

\* the global, targeted and notes layers applied to text: what
\* prepareCustomLog returns when it does not delegate
Layered(text, options) ==
  IF options.all.isNull
  THEN customBody(text, options, [threw |-> FALSE, args |-> <<>>, ends |-> <<>>], <<>>)
  ELSE customGlobal(text, options, prepareObject(options.all.v))

\* options.separators.command is configured to a character other than "|",
\* and text contains "|" but not that character
OnlyDefaultSeparator(text, separators) ==
  /\ ~separators.isNull
  /\ Truthy(separators.command)
  /\ separators.command.v # <<"|">>
  /\ includes(text, <<"|">>)
  /\ ~includes(text, separators.command.v)

\* C15: prepareCustomLog delegates to parseString only when the text contains
\* the active command separator: with options.separators.command configured
\* to another character than "|", a text that contains "|" but not the
\* configured character is not delegated and gets the global, targeted and
\* notes layers
C15_ActiveSeparatorOnly ==
  (Done("prepareCustomLog") /\ OnlyDefaultSeparator(call.text, call.options.separators))
    => ret = Layered(call.text, call.options)

(***************************************************************************)
(* Properties of the suppression of repeated logs                          *)
(***************************************************************************)

\* the step is one LOG call: it is the latest operation, made now
LogStep == op'.last.kind = "log" /\ op'.prev = op.last /\ now' = now

\* the call of the step is made with suppression enabled, at least the
\* timeout after the time stored for its level; the stored time is that of
\* the last call of the level that was not classified as a repeat
TimeoutElapsed ==
  /\ suppressionConfig.enabled
  /\ now - lastLogs[op'.last.level].timestamp >= suppressionConfig.timeout

\* the call of the step is taken as a new log: it is written and stores its
\* text and time
TakenAsNew ==
  /\ ~op'.last.isRepeat
  /\ \E k \in 1..Len(console') :
       console'[k].method = op'.last.level /\ includes(console'[k].str, op'.last.text)
  /\ lastLogs'[op'.last.level] = [text |-> Some(op'.last.text), timestamp |-> now]

\* C16: a call classified as a repeat, suppressed or forced, leaves the stored
\* text and timestamp of its level as they are; so, with suppression enabled
\* and timeout T, a call made at least T ms after the last call of the level
\* that was not a repeat is taken as a new log and written, however close the
\* calls in between were
C16_RepeatKeepsStoredLog ==
  [][LogStep => /\ op'.last.isRepeat => lastLogs' = lastLogs
                /\ TimeoutElapsed => TakenAsNew]_vars

\* a new log, a repeat of it some time later, and a third call with the same
\* text less than the timeout after the repeat but not after the new log: the
\* third call is written as a new log, after the line of the counter
C16_Witness ==
  /\ op.last.kind = "log" /\ op.prev.kind = "log"
  /\ op.last.level = op.prev.level
  /\ op.last.text = op.prev.text
  /\ op.last.enabled /\ op.prev.enabled
  /\ op.prev.isRepeat /\ ~op.last.isRepeat
  /\ op.prev.time < op.last.time
  /\ op.last.time - op.prev.time < suppressionConfig.timeout
  /\ lastLogs[op.last.level].timestamp = op.last.time
  /\ Len(console) = 2
  /\ console[1] = counterLine(1)
  /\ MessageWritten

\* the step is one call of LOG.enableSuppression or LOG.disableSuppression
SwitchStep ==
  /\ op'.last.kind \in {"enable", "disable"}
  /\ op'.prev = op.last
  /\ now' = now

\* what a call of LOG.enableSuppression or LOG.disableSuppression leaves
SwitchEffect ==
  /\ lastLogs' = lastLogs
  /\ repeatCounters' = repeatCounters
  /\ suppressionConfig' = [enabled |-> op'.last.kind = "enable",
                           timeout |-> DefaultTimeout, showCounter |-> TRUE]

\* configureLogSuppression with timeout 0 or no timeout sets the timeout to
\* 1000
TimeoutDefaulted ==
  \A config \in ConfigChoices :
    (configureLogSuppression(config) /\ (config.timeout.isNull \/ config.timeout.v = 0))
      => suppressionConfig'.timeout = DefaultTimeout

\* C17: LOG.enableSuppression() and LOG.disableSuppression() leave the last
\* log of every level and the repeat counters as they are, and set timeout to
\* 1000 and showCounter to true whatever configureLogSuppression had set;
\* configureLogSuppression with timeout 0 or omitted also sets 1000
C17_SwitchResetsConfig == [][(SwitchStep => SwitchEffect) /\ TimeoutDefaulted]_vars

\* suppression was switched right after a repeat: the counter of the repeat
\* and the stored log are still there, and the configuration is the default
\* one but for enabled
C17_Witness ==
  /\ op.last.kind \in {"enable", "disable"}
  /\ op.prev.kind = "log" /\ op.prev.isRepeat
  /\ counterOf(repeatCounters, CounterKey(op.prev.level, op.prev.text)) = 1
  /\ lastLogs[op.prev.level].text = Some(op.prev.text)
  /\ suppressionConfig.timeout = DefaultTimeout
  /\ suppressionConfig.showCounter

\* the step is one call of LOG.resetSuppression
ResetStep == op'.last.kind = "reset" /\ op'.prev = op.last /\ now' = now

\* the step is a LOG call whose level and text make the key
CallOf(key) == LogStep /\ key = CounterKey(op'.last.level, op'.last.text)

\* the call of the step wrote, before its message, one line with the count
\* the counter of key had, when showCounter is on, and no such line when it
\* is off
Summarised(key) ==
  IF suppressionConfig.showCounter
  THEN Len(console') = 2 /\ console'[1] = counterLine(repeatCounters[key])
  ELSE Len(console') = 1

\* the counter of key is the same before and after the step
CounterKept(key) ==
  /\ (key \in DOMAIN repeatCounters) = (key \in DOMAIN repeatCounters')
  /\ counterOf(repeatCounters', key) = counterOf(repeatCounters, key)

\* what the step does to the counter of key
CounterStep(key) ==
  /\ key \in DOMAIN repeatCounters' => repeatCounters'[key] >= 1
  /\ IF CallOf(key)
     THEN IF op'.last.isRepeat
          THEN /\ key \in DOMAIN repeatCounters'
               /\ repeatCounters'[key] = counterOf(repeatCounters, key) + 1
          ELSE IF key \in DOMAIN repeatCounters /\ key \notin DOMAIN repeatCounters'
               THEN Summarised(key)
               ELSE CounterKept(key)
     ELSE IF ResetStep THEN key \notin DOMAIN repeatCounters'
     ELSE CounterKept(key)

====
